---- MODULE Spec2Model ----
(***************************************************************************)
(* The codemod execution pipeline of codemodder: the registry selection    *)
(* (match_codemods) and the per-codemod orchestration of BaseCodemod       *)
(* (_apply, apply, _process_file) over a thread pool.                      *)
(***************************************************************************)
EXTENDS Integers, Sequences, FiniteSets, TLC

(* ------------------------------ bounds -------------------------------- *)
\* longest input file list handed to apply
MaxFiles == 2
\* largest value of context.max_workers (--max-workers)
MaxWorkers == 2
\* largest number of threads of the executor. _apply builds
\* ThreadPoolExecutor() without max_workers, so the pool has the library's
\* default size, whatever context.max_workers is; the model ranges over the
\* sizes 1..MaxPool (a smaller pool only removes schedules of a larger one)
MaxPool == 2
\* longest include / exclude list given to match_codemods
MaxNames == 2
\* most findings of the result set given to one _process_file call
MaxFindings == 2
\* longest rule list given to one _process_file call
MaxRules == 2
\* last line of a file that a finding, a pattern or a change names
MaxLine == 2
\* most characters of the option value given to process_csv_list
MaxChars == 5
\* most statements after `import subprocess` in a module given to ProcessSandbox
MaxStmts == 3
\* most accesses of description / calls of describe on one codemod instance
MaxAccesses == 3
\* most operations (binary or implicit concatenation) in a visited expression
MaxNodes == 2

(* --------------------------- Python values ---------------------------- *)
\* Optional values: None is the empty tuple, a present value x is <<x>>.
None == <<>>
Some(x) == <<x>>

In(x, list) == \E i \in 1..Len(list) : list[i] = x

\* sequences over S without repetition, of length at most n
DistinctSeqs(S, n) ==
    UNION { { s \in [1..k -> S] : \A i, j \in 1..k : i # j => s[i] # s[j] } : k \in 0..n }

\* pathlib.Path values of the analysed tree; suffix is Path.suffix
Paths ==
    { [stem |-> "a", suffix |-> ".py"],
      [stem |-> "b", suffix |-> ".py"],
      [stem |-> "c", suffix |-> ".txt"] }

\* the values of the default_extensions constructor argument
ExtensionArgs ==
    { None, Some(<<>>), Some(<<".txt">>), Some(<<".py", ".txt">>) }

\* the codemods the caller applies, one after another, by Metadata.name
CodemodNames == <<"secure-random", "url-sandbox">>

(* ------------------------------ BaseCodemod --------------------------- *)
Metadata(name) == [name |-> name, language |-> "python"]

\* BaseCodemod.__init__; `default_extensions or [".py"]`
__init__(metadata, detector, default_extensions) ==
    [ _metadata |-> metadata,
      \* the abstract property origin, as a concrete codemod class defines it
      origin |-> "pixee",
      detector |-> detector,
      default_extensions |->
          IF default_extensions # None /\ default_extensions[1] # <<>>
          THEN default_extensions[1]
          ELSE <<".py">> ]

name(self) == self._metadata.name

language(self) == self._metadata.language

id(self) == self.origin \o ":" \o language(self) \o "/" \o name(self)

\* a bug: the extension filter is left out
FilterFilesKeepAll(self, files_to_analyze) == files_to_analyze

\* the extension filter of _apply
FilterFiles(self, files_to_analyze) ==
    IF self.default_extensions # <<>>
    THEN SelectSeq(files_to_analyze,
                   LAMBDA path : In(path.suffix, self.default_extensions))
    ELSE files_to_analyze

(* --------------------------- collaborators ---------------------------- *)
\* codemodder.code_directory.file_line_patterns: the line qualifiers of the
\* patterns that name the file
file_line_patterns(filename, patterns) ==
    { p.line : p \in { q \in patterns : q.path = filename } }

Finding(rule, path, line) == [rule |-> rule, path |-> path, line |-> line]

\* the result sets a detector can return for a rule over a file list: no
\* finding, or one finding in one of the files
ResultSets(rule, files_to_analyze) ==
    { <<>> } \cup { << Finding(rule, files_to_analyze[i], 1) >> :
                       i \in 1..Len(files_to_analyze) }

\* ResultSet.results_for_rule_and_file
results_for_rule_and_file(results, rule, filename) ==
    SelectSeq(results, LAMBDA r : r.rule = rule /\ r.path = filename)

FileContext(directory, file_path, line_exclude, line_include, findings) ==
    [ base_directory |-> directory,
      file_path |-> file_path,
      line_exclude |-> line_exclude,
      line_include |-> line_include,
      findings |-> findings,
      results |-> <<>> ]

\* FileContext.add_result
add_result(file_context, change_set) ==
    [file_context EXCEPT !.results = Append(@, change_set)]

ChangeSet(filename) == [path |-> filename, diff |-> "diff"]

\* what transformer.apply can do for a file: raise, return None, or return a
\* ChangeSet
TransformerOutcomes(filename) ==
    { [raised |-> TRUE, ret |-> None],
      [raised |-> FALSE, ret |-> None],
      [raised |-> FALSE, ret |-> Some(ChangeSet(filename))] }

(* --------------------------- _process_file ---------------------------- *)
Raised == [raised |-> TRUE, value |-> None]
Returned(v) == [raised |-> FALSE, value |-> Some(v)]

\* a bug: the findings are taken in the order of the result set, whatever
\* the order of the rules
ExtendAllResultOrder(results, rules, filename) ==
    SelectSeq(results, LAMBDA r : In(r.rule, rules) /\ r.path = filename)

RECURSIVE ExtendAll(_, _, _)
\* the loop `for rule in rules: findings_for_rule.extend(...)`
ExtendAll(results, rules, filename) ==
    IF rules = <<>> THEN <<>>
    ELSE results_for_rule_and_file(results, Head(rules), filename)
         \o ExtendAll(results, Tail(rules), filename)

\* a bug: `if results:`, which takes an empty result set for no result set
findings_for_rule_truthy(results, rules, filename) ==
    IF results # None /\ results[1] # <<>>
    THEN Some(ExtendAll(results[1], rules, filename))
    ELSE None

\* the local findings_for_rule of _process_file
findings_for_rule(results, rules, filename) ==
    IF results # None
    THEN Some(ExtendAll(results[1], rules, filename))
    ELSE None

\* a bug: the include lines and the exclude lines change places
file_context_swapped(filename, context, results, rules) ==
    FileContext(context.directory, filename,
                file_line_patterns(filename, context.path_include),
                file_line_patterns(filename, context.path_exclude),
                findings_for_rule(results, rules, filename))

\* the local file_context of _process_file, as constructed
file_context(filename, context, results, rules) ==
    FileContext(context.directory, filename,
                file_line_patterns(filename, context.path_exclude),
                file_line_patterns(filename, context.path_include),
                findings_for_rule(results, rules, filename))

\* BaseCodemod._process_file; transformer_apply is what the call of
\* self.transformer.apply(context, file_context, findings_for_rule) does
_process_file(self, filename, context, results, rules, transformer_apply) ==
    LET fc == file_context(filename, context, results, rules)
    IN  IF transformer_apply.raised THEN Raised
        ELSE IF transformer_apply.ret # None
        THEN Returned(add_result(fc, transformer_apply.ret[1]))
        ELSE Returned(fc)

(* ----------------------- one _process_file call ----------------------- *)
Lines == 1..MaxLine

\* the file of the call and another file of the tree
TheFile == [stem |-> "a", suffix |-> ".py"]
OtherFile == [stem |-> "b", suffix |-> ".py"]

\* the places findings and line patterns name
Places == { <<TheFile, l>> : l \in Lines } \cup { <<OtherFile, 1>> }

\* the codemod's own rule and a rule of an imported report
RuleNames == { "secure-random", "python:S2245" }

RuleLists == UNION { [1..k -> RuleNames] : k \in 0..MaxRules }

FindingLists ==
    UNION { [1..k -> { Finding(r, pl[1], pl[2]) : r \in RuleNames, pl \in Places }] :
              k \in 0..MaxFindings }

\* the values of context.path_include / path_exclude: no pattern with a line
\* qualifier, or one
PatternSets == { {} } \cup { { [path |-> pl[1], line |-> pl[2]] } : pl \in Places }

\* a ChangeSet with the lines it changes
LineChangeSet(filename, changes) ==
    [path |-> filename, diff |-> "diff", changes |-> changes]

\* the Line Filter rule a transformer consults: a line is permitted if it is
\* not excluded and, when include lines are configured, included
Permitted(fc, line) ==
    /\ line \notin fc.line_exclude
    /\ fc.line_include = {} \/ line \in fc.line_include

\* what BaseTransformerPipeline.apply(context, file_context, findings) can
\* do: raise, return None, or return a ChangeSet of permitted lines, which
\* are lines of the findings when findings are given
BaseTransformerPipeline_apply(fc, findings) ==
    LET candidates == IF findings = None THEN Lines
                      ELSE { findings[1][i].line : i \in 1..Len(findings[1]) }
        permitted == { l \in candidates : Permitted(fc, l) }
    IN  { [raised |-> TRUE, ret |-> None], [raised |-> FALSE, ret |-> None] }
        \cup { [raised |-> FALSE, ret |-> Some(LineChangeSet(fc.file_path, c))] :
                 c \in (SUBSET permitted) \ { {} } }

(* ------------------------------- _apply ------------------------------- *)
\* what detector.apply can do: raise, or return a result set
DetectorOutcomes(rule, files_to_analyze) ==
    { [raised |-> TRUE, ret |-> <<>>] }
    \cup { [raised |-> FALSE, ret |-> r] : r \in ResultSets(rule, files_to_analyze) }

\* a bug: the detector is asked for the codemod's id
detector_apply_args_id(self, files_to_analyze) ==
    [ rule |-> id(self), files |-> files_to_analyze ]

\* the arguments of self.detector.apply(self.name, context, files_to_analyze)
detector_apply_args(self, files_to_analyze) ==
    [ rule |-> name(self), files |-> files_to_analyze ]

\* a bug: a detector failure is swallowed and taken for "no detector"
_apply_results_swallowed(self, detector_apply) ==
    IF self.detector # None /\ ~detector_apply.raised
    THEN Returned(Some(detector_apply.ret))
    ELSE Returned(None)

\* results = self.detector.apply(...) if self.detector else None;
\* detector_apply is what the call of self.detector.apply does
_apply_results(self, detector_apply) ==
    IF self.detector # None
    THEN IF detector_apply.raised THEN Raised
         ELSE Returned(Some(detector_apply.ret))
    ELSE Returned(None)

\* the state of a task just submitted to the executor
PendingFuture ==
    [ state |-> "pending", transformer_raised |-> FALSE,
      raised |-> FALSE, value |-> None ]

\* a bug: the pool is not joined (shutdown(wait=False), no with block)
NoWait(fs) == TRUE

\* executor.shutdown(wait=True): every task has finished
AllFinished(fs) == \A i \in 1..Len(fs) : fs[i].state = "finished"

\* the tasks the result iterator of executor.map stops at: the first one
\* that has not finished or that raised
Stops(fs) == { i \in 1..Len(fs) : fs[i].state # "finished" \/ fs[i].raised }

Min(S) == CHOOSE x \in S : \A y \in S : x <= y

\* draining the iterator blocks while the task it stops at is unfinished
IteratorReady(fs) ==
    IF Stops(fs) = {} THEN TRUE ELSE fs[Min(Stops(fs))].state = "finished"

\* a bug: the results are joined in completion order (as_completed)
ResultIteratorByCompletion(fs, done) ==
    LET order == SelectSeq(done, LAMBDA i : ~fs[i].raised)
    IN  [ raised |-> Stops(fs) # {},
          yielded |-> [k \in 1..Len(order) |-> fs[order[k]].value[1]] ]

\* the result iterator of executor.map, drained: it yields the results in
\* submission order and raises the exception of the first task that raised;
\* done is the order in which the tasks finished
ResultIterator(fs, done) ==
    LET n == IF Stops(fs) = {} THEN Len(fs) ELSE Min(Stops(fs)) - 1
    IN  [ raised |-> Stops(fs) # {},
          yielded |-> [i \in 1..n |-> fs[i].value[1]] ]

\* CodemodExecutionContext.process_results(codemod_id, contexts): the entry
\* of the codemod receives the outcomes the iterator yields
process_results(agg, codemod_id, contexts) ==
    IF codemod_id \in DOMAIN agg
    THEN [agg EXCEPT ![codemod_id] = @ \o contexts]
    ELSE (codemod_id :> contexts) @@ agg

(* ------------------------------ registry ------------------------------ *)
\* the codemod classes of DEFAULT_CODEMODS
DEFAULT_CODEMODS == { "SecureRandom", "UrlSandbox", "ProcessSandbox" }

\* codemod.METADATA.NAME
METADATA_NAME(codemod) ==
    CASE codemod = "SecureRandom" -> "secure-random"
      [] codemod = "UrlSandbox" -> "url-sandbox"
      [] codemod = "ProcessSandbox" -> "sandbox-process-creation"

\* the names a caller can put in --codemod-include / --codemod-exclude: the
\* registered names, a name that matches no codemod, and a full codemod id
Names ==
    { METADATA_NAME(c) : c \in DEFAULT_CODEMODS }
    \cup { "no-such-codemod", "pixee:python/secure-random" }

NameLists == UNION { [1..k -> Names] : k \in 0..MaxNames }

\* the dict comprehension {name: codemod for codemod in codemods}
Dict(codemods) ==
    [ n \in { METADATA_NAME(c) : c \in codemods } |->
        CHOOSE c \in codemods : METADATA_NAME(c) = n ]

\* a bug: the include list is used as the exclude list and conversely
match_codemods_swapped(codemod_include, codemod_exclude) ==
    IF codemod_include = <<>> /\ codemod_exclude = <<>>
    THEN Returned(Dict(DEFAULT_CODEMODS))
    ELSE IF codemod_include # <<>>
    THEN Returned(Dict({ c \in DEFAULT_CODEMODS :
                           ~In(METADATA_NAME(c), codemod_include) }))
    ELSE Returned(Dict({ c \in DEFAULT_CODEMODS :
                           In(METADATA_NAME(c), codemod_exclude) }))

\* a bug: a name that matches no codemod is an error
match_codemods_strict(codemod_include, codemod_exclude) ==
    IF \E i \in 1..Len(codemod_include \o codemod_exclude) :
         (codemod_include \o codemod_exclude)[i]
             \notin { METADATA_NAME(c) : c \in DEFAULT_CODEMODS }
    THEN Raised
    ELSE IF codemod_exclude # <<>>
    THEN Returned(Dict({ c \in DEFAULT_CODEMODS :
                           ~In(METADATA_NAME(c), codemod_exclude) }))
    ELSE IF codemod_include # <<>>
    THEN Returned(Dict({ c \in DEFAULT_CODEMODS :
                           In(METADATA_NAME(c), codemod_include) }))
    ELSE Returned(Dict(DEFAULT_CODEMODS))

\* a bug: the include list is looked at before the exclude list
match_codemods_include_first(codemod_include, codemod_exclude) ==
    IF codemod_include = <<>> /\ codemod_exclude = <<>>
    THEN Returned(Dict(DEFAULT_CODEMODS))
    ELSE IF codemod_include # <<>>
    THEN Returned(Dict({ c \in DEFAULT_CODEMODS :
                           In(METADATA_NAME(c), codemod_include) }))
    ELSE Returned(Dict({ c \in DEFAULT_CODEMODS :
                           ~In(METADATA_NAME(c), codemod_exclude) }))

\* match_codemods(codemod_include, codemod_exclude): the mapping, or the
\* AssertionError
match_codemods(codemod_include, codemod_exclude) ==
    IF codemod_include = <<>> /\ codemod_exclude = <<>>
    THEN Returned(Dict(DEFAULT_CODEMODS))
    ELSE IF ~(codemod_include # <<>> \/ codemod_exclude # <<>>)
    THEN Raised
    ELSE IF codemod_exclude # <<>>
    THEN Returned(Dict({ c \in DEFAULT_CODEMODS :
                           ~In(METADATA_NAME(c), codemod_exclude) }))
    ELSE Returned(Dict({ c \in DEFAULT_CODEMODS :
                           In(METADATA_NAME(c), codemod_include) }))

(* --------------------------- process_csv_list -------------------------- *)
\* a str is the sequence of its characters
Chars == { "a", "b", "c", "," }

Strings == UNION { [1..k -> Chars] : k \in 0..MaxChars }

RECURSIVE split(_, _)
\* str.split(sep) for a separator of one character
split(value, sep) ==
    IF \A i \in 1..Len(value) : value[i] # sep THEN << value >>
    ELSE LET i == Min({ j \in 1..Len(value) : value[j] = sep })
         IN  << SubSeq(value, 1, i - 1) >>
             \o split(SubSeq(value, i + 1, Len(value)), sep)

\* a bug: list(value.split(",")), which keeps the duplicates
list_of_items(items) == items

RECURSIVE list_dict_fromkeys(_)
\* list(dict.fromkeys(items)): the keys of a dict in insertion order, a key
\* that is already there keeping its place
list_dict_fromkeys(items) ==
    IF items = <<>> THEN <<>>
    ELSE LET keys == list_dict_fromkeys(SubSeq(items, 1, Len(items) - 1))
             item == items[Len(items)]
         IN  IF In(item, keys) THEN keys ELSE Append(keys, item)

\* cli.process_csv_list(ctx, param, value)
process_csv_list(value) ==
    IF value = None THEN <<>>
    ELSE list_dict_fromkeys(split(value[1], ","))

(* ---------------------------- ProcessSandbox --------------------------- *)
\* a module is the sequence of its lines
Import(module) == [kind |-> "import", module |-> module]

FromImport(module, imported) ==
    [kind |-> "from_import", module |-> module, name |-> imported]

\* the expression statement obj.func(args)
Call(obj, func, args) == [kind |-> "call", obj |-> obj, func |-> func, args |-> args]

Blank == [kind |-> "blank"]

Assign == [kind |-> "assign", target |-> "var", value |-> "hello"]

ShellArgs == "\"echo 'hi'\", shell=True"

ListArgs == "[\"ls\", \"-l\"]"

\* TestProcessSandbox.original_code
original_code ==
    << Import("subprocess"),
       Blank,
       Call("subprocess", "run", ShellArgs),
       Call("subprocess", "run", ListArgs),
       Blank,
       Call("subprocess", "call", ShellArgs),
       Call("subprocess", "call", ListArgs),
       Blank,
       Call("subprocess", "check_output", ListArgs),
       Blank,
       Assign >>

\* TestProcessSandbox.expected_new_code
expected_new_code ==
    << Import("subprocess"),
       FromImport("security", "safe_command"),
       Blank,
       Call("safe_command", "run", ShellArgs),
       Call("safe_command", "run", ListArgs),
       Blank,
       Call("safe_command", "call", ShellArgs),
       Call("safe_command", "call", ListArgs),
       Blank,
       Call("subprocess", "check_output", ListArgs),
       Blank,
       Assign >>

\* TestProcessSandbox.expected_line_change
expected_line_change == 3

\* TestProcessSandbox.num_changes
num_changes == 4

\* the lines that can follow `import subprocess`
Statements ==
    { Call("subprocess", f, a) : f \in {"run", "call", "check_output"},
                                 a \in {ShellArgs, ListArgs} }
    \cup { Blank, Assign }

Modules ==
    { original_code }
    \cup { << Import("subprocess") >> \o body :
             body \in UNION { [1..k -> Statements] : k \in 0..MaxStmts } }

\* the call sites ProcessSandbox rewrites
IsSandboxed(stmt) ==
    /\ stmt.kind = "call"
    /\ stmt.obj = "subprocess"
    /\ stmt.func \in {"run", "call"}

\* a bug: the import is added once for every rewritten call site
AddImportPerSite(module, sites) ==
    << module[1] >>
    \o [ i \in 1..Cardinality(sites) |-> FromImport("security", "safe_command") ]
    \o SubSeq(module, 2, Len(module))

\* the import is added once, after the module's import line, when a call
\* site was rewritten
AddImport(module, sites) ==
    IF sites = {} THEN module
    ELSE << module[1], FromImport("security", "safe_command") >>
         \o SubSeq(module, 2, Len(module))

\* ProcessSandbox over one module: the new module and the changed lines of
\* the ChangeSet, none when nothing was rewritten
ProcessSandbox(module) ==
    LET sites == { i \in 1..Len(module) : IsSandboxed(module[i]) }
        rewritten == [ i \in 1..Len(module) |->
                         IF i \in sites
                         THEN Call("safe_command", module[i].func, module[i].args)
                         ELSE module[i] ]
    IN  [ module |-> AddImport(rewritten, sites),
          changes |-> SelectSeq([ i \in 1..Len(module) |-> i ], LAMBDA i : i \in sites) ]

(* ----------------------- description and describe --------------------- *)
Reference(url, text) == [url |-> url, description |-> text]

\* Reference.model_dump(): the dict of the model's fields
model_dump(ref) == [url |-> ref.url, description |-> ref.description]

\* Metadata with the fields describe reads; description is None or a text
DescribedMetadata(n, s, d, refs) ==
    [ name |-> n, language |-> "python", summary |-> s,
      description |-> d, references |-> refs ]

\* a codemod instance with the entry cached_property keeps in its __dict__
\* for description, None while the property has not been computed
Instance(metadata) ==
    [ _metadata |-> metadata, origin |-> "pixee", cached_description |-> None ]

summary(self) == self._metadata.summary

references(self) == self._metadata.references

\* the documentation resource {origin}_python_{name}.md: missing, or a file
\* with a text
DocTexts == { "text-1", "text-2" }

DocsResources ==
    { [exists |-> FALSE, text |-> ""] }
    \cup { [exists |-> TRUE, text |-> t] : t \in DocTexts }

\* a bug: description is a plain property, computed at every access
description_property(self, docs) ==
    IF self._metadata.description = None
    THEN IF docs.exists
         THEN [ raised |-> FALSE, value |-> docs.text, self |-> self, read |-> TRUE ]
         ELSE [ raised |-> TRUE, value |-> "", self |-> self, read |-> FALSE ]
    ELSE [ raised |-> FALSE, value |-> self._metadata.description[1],
           self |-> self, read |-> FALSE ]

\* an access of the cached_property description: the value it returns or the
\* failure of read_text, the instance afterwards, and whether the resource
\* was read
description(self, docs) ==
    IF self.cached_description # None
    THEN [ raised |-> FALSE, value |-> self.cached_description[1],
           self |-> self, read |-> FALSE ]
    ELSE IF self._metadata.description = None
    THEN IF docs.exists
         THEN [ raised |-> FALSE, value |-> docs.text,
                self |-> [self EXCEPT !.cached_description = Some(docs.text)],
                read |-> TRUE ]
         ELSE [ raised |-> TRUE, value |-> "", self |-> self, read |-> FALSE ]
    ELSE [ raised |-> FALSE, value |-> self._metadata.description[1],
           self |-> [self EXCEPT !.cached_description = self._metadata.description],
           read |-> FALSE ]

\* BaseCodemod.describe
describe(self, docs) ==
    LET d == description(self, docs)
    IN  [ raised |-> d.raised,
          value |-> IF d.raised THEN None
                    ELSE Some([ codemod |-> id(self),
                                summary |-> summary(self),
                                description |-> d.value,
                                references |->
                                    [ i \in 1..Len(references(self)) |->
                                        model_dump(references(self)[i]) ] ]),
          self |-> d.self,
          read |-> d.read ]

(* -------------------- RemoveEmptyStringConcatenation ------------------ *)
\* libcst nodes. A SimpleString is kept as the parts of its value: prefix,
\* quote and the text between the quotes
SimpleString(prefix, quote, text) ==
    [ kind |-> "SimpleString", prefix |-> prefix, quote |-> quote, text |-> text ]

\* SimpleString.raw_value: the value without prefix and quotes
raw_value(node) == node.text

\* an f-string, with no part or with an expression part
FormattedString(parts) == [ kind |-> "FormattedString", parts |-> parts ]

Name(value) == [ kind |-> "Name", value |-> value ]

BinaryOperation(left, operator, right) ==
    [ kind |-> "BinaryOperation", left |-> left, operator |-> operator,
      right |-> right ]

ConcatenatedString(left, right) ==
    [ kind |-> "ConcatenatedString", left |-> left, right |-> right ]

\* "", '', "a", f"", f"{x}" and x
StringLeaves ==
    { SimpleString("", "\"", ""), SimpleString("", "'", ""),
      SimpleString("", "\"", "a"),
      FormattedString(<<>>), FormattedString(<< Name("x") >>) }

Leaves == StringLeaves \cup { Name("x") }

Operators == { "Add", "Modulo" }

RECURSIVE TreesOfSize(_)
\* the expressions with n operations, as operands of a larger expression;
\* the operands of a ConcatenatedString are strings, the right one possibly
\* a ConcatenatedString
TreesOfSize(n) ==
    IF n = 0 THEN Leaves
    ELSE { BinaryOperation(lr[1], op, lr[2]) :
             op \in Operators,
             lr \in UNION { TreesOfSize(k) \X TreesOfSize(n - 1 - k) : k \in 0..(n - 1) } }
         \cup { ConcatenatedString(l, r) :
                  l \in StringLeaves,
                  r \in { t \in TreesOfSize(n - 1) :
                            t \in StringLeaves \/ t.kind = "ConcatenatedString" } }

\* the right operands of a ConcatenatedString with n operations
ConcatenatedOperands(n) ==
    { t \in TreesOfSize(n) : t \in StringLeaves \/ t.kind = "ConcatenatedString" }

\* case cst.SimpleString() if node.raw_value == ""
IsEmptySimpleString(node) ==
    node.kind = "SimpleString" /\ raw_value(node) = ""

\* a bug: only the left operand is looked at
handle_node_left_only(updated_node) ==
    IF IsEmptySimpleString(updated_node.left)
    THEN IF IsEmptySimpleString(updated_node.right)
         THEN SimpleString("", "\"", "")
         ELSE updated_node.right
    ELSE updated_node

\* RemoveEmptyStringConcatenation.handle_node
handle_node(updated_node) ==
    IF IsEmptySimpleString(updated_node.left)
    THEN IF IsEmptySimpleString(updated_node.right)
         THEN SimpleString("", "\"", "")
         ELSE updated_node.right
    ELSE IF IsEmptySimpleString(updated_node.right)
    THEN IF IsEmptySimpleString(updated_node.left)
         THEN SimpleString("", "\"", "")
         ELSE updated_node.left
    ELSE updated_node

leave_BinaryOperation(original_node, updated_node) == handle_node(updated_node)

leave_ConcatenatedString(original_node, updated_node) == handle_node(updated_node)

\* a bug: only the outermost operation is handled
visit_root_only(node) ==
    IF node.kind = "BinaryOperation" THEN leave_BinaryOperation(node, node)
    ELSE IF node.kind = "ConcatenatedString" THEN leave_ConcatenatedString(node, node)
    ELSE node

RECURSIVE updated(_)
RECURSIVE visit(_)
\* CSTNode.visit(transformer): the children are visited first, then the
\* node's leave_ method is called with the node holding the new children
visit(node) ==
    IF node.kind = "BinaryOperation" THEN leave_BinaryOperation(node, updated(node))
    ELSE IF node.kind = "ConcatenatedString"
    THEN leave_ConcatenatedString(node, updated(node))
    ELSE node

\* the updated_node of an operation: the node with its children visited
updated(node) ==
    [node EXCEPT !.left = visit(node.left), !.right = visit(node.right)]

(* ------------------------------- state -------------------------------- *)
VARIABLES
    files,            \* the caller's file list, handed to every apply
    context,          \* CodemodExecutionContext configuration fields
    aggregator,       \* context's outcomes: codemod id -> list of FileContext
    pool_workers,     \* number of threads of ThreadPoolExecutor()
    applied,          \* number of codemods whose apply has been called
    self,             \* the codemod whose apply is in progress
    pc,               \* position of the orchestrator thread in apply/_apply
    exception,        \* the exception apply ended with, if any
    detector_calls,   \* the detector calls of this apply
    results,          \* _apply's local `results`
    files_to_analyze, \* _apply's local `files_to_analyze`
    futures,          \* the tasks of executor.map, in submission order
    completion,       \* indices of the tasks in the order they finished
    writes,           \* number of process_results writes per codemod id
    codemod_include,  \* the include list given to match_codemods
    codemod_exclude,  \* the exclude list given to match_codemods
    matched,          \* what match_codemods did, once it was called
    pf_args,          \* the arguments of one _process_file call
    pf_call,          \* the arguments of its transformer.apply call
    pf_return,        \* what the _process_file call did
    csv_value,        \* the option value given to process_csv_list
    csv_list,         \* what process_csv_list returned
    sb_module,        \* the module ProcessSandbox is applied to
    sb_output,        \* what ProcessSandbox made of it
    d_codemod,        \* a codemod instance with its cached properties
    d_docs,           \* the text of its documentation resource
    d_reads,          \* number of reads of the documentation resource
    d_log,            \* what the accesses of the description returned
    cst_tree,         \* the expression RemoveEmptyStringConcatenation visits
    cst_output        \* what the transformer made of it

pipeline_vars ==
    << files, context, aggregator, pool_workers, applied, self, pc,
       exception, detector_calls, results, files_to_analyze, futures,
       completion, writes >>

match_vars == << codemod_include, codemod_exclude, matched >>

file_vars == << pf_args, pf_call, pf_return >>

csv_vars == << csv_value, csv_list >>

sandbox_vars == << sb_module, sb_output >>

describe_vars == << d_codemod, d_docs, d_reads, d_log >>

cst_vars == << cst_tree, cst_output >>

\* the state outside the pipeline and the registry
side_vars == << file_vars, csv_vars, sandbox_vars, describe_vars, cst_vars >>

vars == << pipeline_vars, match_vars, side_vars >>

\* the parts of the state a specification does not use
IdleFile == pf_args = None /\ pf_call = None /\ pf_return = None

IdleCsv == csv_value = None /\ csv_list = None

IdleSandbox == sb_module = None /\ sb_output = None

IdleDescribe == d_codemod = None /\ d_docs = None /\ d_reads = 0 /\ d_log = <<>>

IdleCst == cst_tree = None /\ cst_output = None

NoSelf == __init__(Metadata(""), None, None)

Init ==
    /\ files \in DistinctSeqs(Paths, MaxFiles)
    /\ \E max_workers \in 1..MaxWorkers :
         context = [ directory |-> "/repo",
                     max_workers |-> max_workers,
                     path_include |-> {},
                     path_exclude |-> {} ]
    /\ pool_workers \in 1..MaxPool
    /\ aggregator = << >>
    /\ applied = 0
    /\ self = NoSelf
    /\ pc = "idle"
    /\ exception = None
    /\ detector_calls = <<>>
    /\ results = None
    /\ files_to_analyze = <<>>
    /\ futures = <<>>
    /\ completion = <<>>
    /\ writes = << >>
    /\ codemod_include = <<>>
    /\ codemod_exclude = <<>>
    /\ matched = None
    /\ IdleFile /\ IdleCsv /\ IdleSandbox /\ IdleDescribe /\ IdleCst

\* no codemod is applied
IdlePipeline ==
    /\ files = <<>>
    /\ context = [ directory |-> "/repo", max_workers |-> 1,
                   path_include |-> {}, path_exclude |-> {} ]
    /\ pool_workers = 1
    /\ aggregator = << >>
    /\ applied = Len(CodemodNames)
    /\ self = NoSelf
    /\ pc = "idle"
    /\ exception = None
    /\ detector_calls = <<>>
    /\ results = None
    /\ files_to_analyze = <<>>
    /\ futures = <<>>
    /\ completion = <<>>
    /\ writes = << >>

\* match_codemods is not called
IdleMatch ==
    /\ codemod_include = <<>>
    /\ codemod_exclude = <<>>
    /\ matched = None

Indices(state) == { i \in 1..Len(futures) : futures[i].state = state }

(* ------------------------------ actions ------------------------------- *)
\* the caller constructs the next codemod and calls apply(context, files),
\* which calls _apply(context, files_to_analyze, [self.name])
Apply ==
    /\ pc \in {"idle", "returned", "raised"}
    /\ applied < Len(CodemodNames)
    /\ \E detector \in {None, Some("detector")}, exts \in ExtensionArgs :
         self' = __init__(Metadata(CodemodNames[applied + 1]), detector, exts)
    /\ applied' = applied + 1
    /\ pc' = "detect"
    /\ exception' = None
    /\ detector_calls' = <<>>
    /\ results' = None
    /\ files_to_analyze' = files
    /\ futures' = <<>>
    /\ completion' = <<>>
    /\ UNCHANGED << match_vars, side_vars >>
    /\ UNCHANGED << files, context, aggregator, pool_workers, writes >>

\* results = self.detector.apply(self.name, context, files_to_analyze)
\*           if self.detector else None
Detect ==
    /\ pc = "detect"
    /\ \E d \in IF self.detector # None
                THEN DetectorOutcomes(detector_apply_args(self, files_to_analyze).rule,
                                      detector_apply_args(self, files_to_analyze).files)
                ELSE { [raised |-> FALSE, ret |-> <<>>] } :
         LET r == _apply_results(self, d)
             args == detector_apply_args(self, files_to_analyze)
         IN  /\ detector_calls' =
                   IF self.detector # None
                   THEN << [ rule |-> args.rule, files |-> args.files,
                             raised |-> d.raised ] >>
                   ELSE <<>>
             /\ IF r.raised
                THEN /\ pc' = "raised"
                     /\ exception' = Some("detector")
                     /\ UNCHANGED results
                ELSE /\ pc' = "submit"
                     /\ results' = r.value[1]
                     /\ UNCHANGED exception
    /\ UNCHANGED << match_vars, side_vars >>
    /\ UNCHANGED << files, context, aggregator, pool_workers, applied, self,
                    files_to_analyze, futures, completion, writes >>

\* the extension filter, then executor.map(process_file, files_to_analyze)
\* inside `with ThreadPoolExecutor() as executor`
Submit ==
    /\ pc = "submit"
    /\ files_to_analyze' = FilterFiles(self, files_to_analyze)
    /\ futures' = [ i \in 1..Len(files_to_analyze') |-> PendingFuture ]
    /\ pc' = "shutdown"
    /\ UNCHANGED << match_vars, side_vars >>
    /\ UNCHANGED << files, context, aggregator, pool_workers, applied, self,
                    exception, detector_calls, results, completion, writes >>

\* a pool thread takes the next task from the executor's FIFO work queue;
\* a task is running from then until its future is set
WorkerStart(i) ==
    /\ futures[i].state = "pending"
    /\ \A j \in 1..(i - 1) : futures[j].state # "pending"
    /\ Cardinality(Indices("running")) < pool_workers
    /\ futures' = [futures EXCEPT ![i].state = "running"]
    /\ UNCHANGED << match_vars, side_vars >>
    /\ UNCHANGED << files, context, aggregator, pool_workers, applied, self,
                    pc, exception, detector_calls, results, files_to_analyze,
                    completion, writes >>

\* a bug: the worker itself hands its outcome to the aggregator
WorkerFinishWriting(i) ==
    /\ futures[i].state = "running"
    /\ \E t \in TransformerOutcomes(files_to_analyze[i]) :
         LET r == _process_file(self, files_to_analyze[i], context, results,
                                <<name(self)>>, t)
         IN  /\ futures' = [futures EXCEPT ![i] =
                              [ state |-> "finished",
                                transformer_raised |-> t.raised,
                                raised |-> r.raised,
                                value |-> r.value ]]
             /\ aggregator' = process_results(aggregator, id(self), r.value)
             /\ writes' = IF id(self) \in DOMAIN writes
                          THEN [writes EXCEPT ![id(self)] = @ + 1]
                          ELSE (id(self) :> 1) @@ writes
    /\ completion' = Append(completion, i)
    /\ UNCHANGED << match_vars, side_vars >>
    /\ UNCHANGED << files, context, pool_workers, applied, self,
                    pc, exception, detector_calls, results, files_to_analyze >>

\* a bug: the worker takes the findings it used out of the shared ResultIndex
WorkerFinishConsuming(i) ==
    /\ futures[i].state = "running"
    /\ \E t \in TransformerOutcomes(files_to_analyze[i]) :
         LET r == _process_file(self, files_to_analyze[i], context, results,
                                <<name(self)>>, t)
         IN futures' = [futures EXCEPT ![i] =
                          [ state |-> "finished",
                            transformer_raised |-> t.raised,
                            raised |-> r.raised,
                            value |-> r.value ]]
    /\ results' = IF results = None THEN None
                  ELSE Some(SelectSeq(results[1],
                                      LAMBDA f : f.path # files_to_analyze[i]))
    /\ completion' = Append(completion, i)
    /\ UNCHANGED << match_vars, side_vars >>
    /\ UNCHANGED << files, context, aggregator, pool_workers, applied, self,
                    pc, exception, detector_calls, files_to_analyze, writes >>

\* the thread runs process_file(filename) and sets the future
WorkerFinish(i) ==
    /\ futures[i].state = "running"
    /\ \E t \in TransformerOutcomes(files_to_analyze[i]) :
         LET r == _process_file(self, files_to_analyze[i], context, results,
                                <<name(self)>>, t)
         IN futures' = [futures EXCEPT ![i] =
                          [ state |-> "finished",
                            transformer_raised |-> t.raised,
                            raised |-> r.raised,
                            value |-> r.value ]]
    /\ completion' = Append(completion, i)
    /\ UNCHANGED << match_vars, side_vars >>
    /\ UNCHANGED << files, context, aggregator, pool_workers, applied, self,
                    pc, exception, detector_calls, results, files_to_analyze,
                    writes >>

\* executor.shutdown(wait=True) and the exit of the with block
Shutdown ==
    /\ pc = "shutdown"
    /\ AllFinished(futures)
    /\ pc' = "process_results"
    /\ UNCHANGED << match_vars, side_vars >>
    /\ UNCHANGED << files, context, aggregator, pool_workers, applied, self,
                    exception, detector_calls, results, files_to_analyze,
                    futures, completion, writes >>

\* context.process_results(self.id, contexts), which drains the iterator; an
\* exception the iterator raises ends process_results and apply
ProcessResults ==
    /\ pc = "process_results"
    /\ IteratorReady(futures)
    /\ LET contexts == ResultIterator(futures, completion)
       IN  /\ aggregator' = process_results(aggregator, id(self), contexts.yielded)
           /\ writes' = IF id(self) \in DOMAIN writes
                        THEN [writes EXCEPT ![id(self)] = @ + 1]
                        ELSE (id(self) :> 1) @@ writes
           /\ IF contexts.raised
              THEN /\ pc' = "raised"
                   /\ exception' = Some("transformer")
              ELSE /\ pc' = "returned"
                   /\ UNCHANGED exception
    /\ UNCHANGED << match_vars, side_vars >>
    /\ UNCHANGED << files, context, pool_workers, applied, self,
                    detector_calls, results, files_to_analyze, futures,
                    completion >>

Next ==
    \/ Apply
    \/ Detect
    \/ Submit
    \/ \E i \in 1..Len(futures) : WorkerStart(i)
    \/ \E i \in 1..Len(futures) : WorkerFinish(i)
    \/ Shutdown
    \/ ProcessResults

Spec == Init /\ [][Next]_vars

(* ------------------------------- claims ------------------------------- *)
\* the tasks of the current fan-out that have not finished
Unfinished == Indices("pending") \cup Indices("running")

\* whether the codemod in progress takes the file
Eligible(path) == In(path.suffix, self.default_extensions)

PathsOf(out) == [i \in 1..Len(out) |-> out[i].file_path]

\* C1: the outcomes apply hands to the aggregator are in the order of the
\* input file list restricted to the eligible files, whatever the order in
\* which the tasks finished and whatever the size of the pool
C1_JoinOrder ==
    pc = "returned" =>
        /\ id(self) \in DOMAIN aggregator
        /\ PathsOf(aggregator[id(self)]) = SelectSeq(files, Eligible)

\* the second task finished before the first, and apply returned
C1_Witness ==
    /\ pc = "returned"
    /\ Len(completion) >= 2
    /\ completion[1] > completion[2]
    /\ Len(aggregator[id(self)]) >= 2

\* C2: once apply has ended, when the transformer raised on a file A, every
\* other file B has been processed and B's outcome is in the aggregator
C2_Isolation ==
    pc \in {"returned", "raised"} =>
        \A a, b \in 1..Len(futures) :
            (a # b /\ futures[a].transformer_raised
                   /\ ~futures[b].transformer_raised) =>
                /\ futures[b].state = "finished"
                /\ futures[b].value # None
                /\ id(self) \in DOMAIN aggregator
                /\ In(futures[b].value[1], aggregator[id(self)])

\* C3: the number of units running at the same time never exceeds
\* context.max_workers
C3_PoolBound == Cardinality(Indices("running")) <= context.max_workers

\* C4: the aggregator holds an entry, under the codemod's id, exactly when
\* process_results wrote it, it was written once, a returned apply has
\* written it, and no entry of the codemod in progress exists while a unit
\* is unfinished or before the orchestrator reaches process_results
C4_WrittenOnceAfterJoin ==
    /\ DOMAIN writes = DOMAIN aggregator
    /\ \A k \in DOMAIN writes : writes[k] = 1
    /\ \A k \in DOMAIN aggregator :
         \E n \in 1..applied : k = "pixee:python/" \o CodemodNames[n]
    /\ pc = "returned" => id(self) \in DOMAIN aggregator
    /\ Unfinished # {} => id(self) \notin DOMAIN aggregator
    /\ pc \in {"detect", "submit", "shutdown", "process_results"} =>
         id(self) \notin DOMAIN aggregator

\* apply returned after a fan-out of two units and wrote its entry
C4_Witness ==
    /\ pc = "returned"
    /\ Len(futures) >= 2
    /\ writes[id(self)] = 1

\* C5: a unit is unfinished only while the orchestrator is inside the with
\* block of _apply: when apply has returned or raised, and when the next
\* apply begins, no unit is pending or running
C5_JoinedOnReturn == pc # "shutdown" => Unfinished = {}

\* a unit of the second codemod runs after the first codemod's fan-out has
\* been joined and reported
C5_Witness ==
    /\ applied = 2
    /\ pc = "shutdown"
    /\ Indices("running") # {}
    /\ \E k \in DOMAIN aggregator : Len(aggregator[k]) > 0

Count(out, path) == Cardinality({ i \in 1..Len(out) : out[i].file_path = path })

\* C6: the eligible extensions are [".py"] when None or [] was given at
\* construction; when apply returns, its outcome list holds one FileContext
\* for each input file with an eligible suffix and none for any other file
C6_OneOutcomePerEligibleFile ==
    /\ \A arg \in {None, Some(<<>>)} :
         __init__(Metadata("m"), None, arg).default_extensions = <<".py">>
    /\ pc = "returned" =>
         \A path \in Paths :
             Count(aggregator[id(self)], path) =
                 IF In(path, files) /\ Eligible(path) THEN 1 ELSE 0

\* apply returned; an unchanged file is reported and an input file with
\* another suffix is not
C6_Witness ==
    /\ pc = "returned"
    /\ \E i \in 1..Len(aggregator[id(self)]) : aggregator[id(self)][i].results = <<>>
    /\ \E i \in 1..Len(files) : ~Eligible(files[i])

\* C9: when the transformer raises for a file, _process_file does not raise
\* and returns the file's FileContext without ChangeSet, and the apply call
\* returns and writes the codemod's entry
C9_TransformFaultRecovered ==
    /\ \A i \in 1..Len(futures) :
         (futures[i].state = "finished" /\ futures[i].transformer_raised) =>
             /\ ~futures[i].raised
             /\ futures[i].value # None
             /\ futures[i].value[1].results = <<>>
    /\ (pc \in {"returned", "raised"}
          /\ \E i \in 1..Len(futures) : futures[i].transformer_raised) =>
         /\ pc = "returned"
         /\ id(self) \in DOMAIN aggregator

\* C10: when the detector raised, apply has ended with that failure, no unit
\* was started and the codemod has no entry in the aggregator; when the
\* detector returned no finding, apply does not fail on it and one unit per
\* eligible file is submitted
C10_DetectorFailure ==
    /\ (detector_calls # <<>> /\ detector_calls[1].raised) =>
         /\ pc = "raised"
         /\ exception = Some("detector")
         /\ futures = <<>>
         /\ completion = <<>>
         /\ id(self) \notin DOMAIN aggregator
    /\ (detector_calls # <<>> /\ ~detector_calls[1].raised
          /\ results = Some(<<>>)) =>
         /\ exception # Some("detector")
         /\ pc \in {"shutdown", "process_results", "returned"} =>
              Len(futures) = Len(SelectSeq(files, Eligible))

\* the detector of the second codemod raised after the first codemod was
\* reported
C10_Witness ==
    /\ detector_calls # <<>>
    /\ detector_calls[1].raised
    /\ pc = "raised"
    /\ DOMAIN aggregator # {}


\* C16: a detector, if present, is called exactly once per apply, before any
\* unit exists, with the codemod's name (not its id) and the caller's whole
\* file list, unfiltered; without a detector no detector call is made and
\* every unit works without a ResultIndex.
C16_DetectOnceBeforeUnits ==
    /\ Len(detector_calls) <= 1
    /\ pc = "detect" => detector_calls = <<>> /\ futures = <<>>
    /\ detector_calls = <<>> /\ self.detector # None => futures = <<>>
    /\ (pc \notin {"idle", "detect"} /\ self.detector # None) =>
         /\ Len(detector_calls) = 1
         /\ detector_calls[1].rule = self._metadata.name
         /\ detector_calls[1].rule # id(self)
         /\ detector_calls[1].files = files
    /\ self.detector = None =>
         /\ detector_calls = <<>>
         /\ results = None
         /\ \A i \in 1..Len(futures) :
              futures[i].value # None => futures[i].value[1].findings = None

\* the detector was called with a file list longer than the list of units,
\* and a unit has finished
C16_Witness ==
    /\ pc = "shutdown"
    /\ self.detector # None
    /\ Len(detector_calls) = 1
    /\ Len(detector_calls[1].files) > Len(futures)
    /\ \E i \in 1..Len(futures) : futures[i].value # None

\* a step taken between the detector call and the aggregator write leaves
\* what the units share as it is
SharedInputsUnchanged ==
    pc \in {"submit", "shutdown", "process_results"} =>
        /\ results' = results
        /\ context' = context
        /\ self' = self
        /\ files' = files

\* C17: from the end of the detector call to the aggregator write, no step
\* changes the ResultIndex, the configuration or the codemod and its rule
\* list; every unit's FileContext is the one built from that ResultIndex,
\* rule list and configuration for its file.
C17_SharedInputsReadOnly ==
    /\ [][SharedInputsUnchanged]_vars
    /\ [](pc \in {"shutdown", "process_results"} =>
            \A i \in 1..Len(futures) :
               futures[i].value # None =>
                  LET fc == futures[i].value[1]
                  IN  /\ fc.file_path = files_to_analyze[i]
                      /\ fc.base_directory = context.directory
                      /\ fc.findings =
                           IF results = None THEN None
                           ELSE Some(SelectSeq(results[1], LAMBDA f :
                                       /\ f.rule = self._metadata.name
                                       /\ f.path = files_to_analyze[i])))

\* two units have finished, the first against a ResultIndex that holds a
\* finding for its file, and the aggregator write is about to happen
C17_Witness ==
    /\ pc = "process_results"
    /\ results # None
    /\ Len(futures) = 2
    /\ \A i \in 1..2 : futures[i].value # None
    /\ \E i \in 1..2 : futures[i].value[1].findings \notin { None, Some(<<>>) }
    /\ \E k \in 1..Len(results[1]) : results[1][k].path = files_to_analyze[1]

(* ------------------------- registry selection ------------------------- *)
\* the caller's lists, before match_codemods is called; no codemod is applied
InitMatch ==
    /\ codemod_include \in NameLists
    /\ codemod_exclude \in NameLists
    /\ matched = None
    /\ files = <<>>
    /\ context = [ directory |-> "/repo", max_workers |-> 1,
                   path_include |-> {}, path_exclude |-> {} ]
    /\ pool_workers = 1
    /\ aggregator = << >>
    /\ applied = Len(CodemodNames)
    /\ self = NoSelf
    /\ pc = "idle"
    /\ exception = None
    /\ detector_calls = <<>>
    /\ results = None
    /\ files_to_analyze = <<>>
    /\ futures = <<>>
    /\ completion = <<>>
    /\ writes = << >>
    /\ IdleFile /\ IdleCsv /\ IdleSandbox /\ IdleDescribe /\ IdleCst

\* the call match_codemods(codemod_include, codemod_exclude)
Match ==
    /\ matched = None
    /\ matched' = Some(match_codemods(codemod_include, codemod_exclude))
    /\ UNCHANGED << codemod_include, codemod_exclude >>
    /\ UNCHANGED << pipeline_vars, side_vars >>

NextMatch == Match

SpecMatch == InitMatch /\ [][NextMatch]_vars

\* the names of the registered codemods
KnownNames == { METADATA_NAME(c) : c \in DEFAULT_CODEMODS }

Range(list) == { list[i] : i \in 1..Len(list) }

\* the codemods the selection rule asks for
Selected ==
    IF codemod_include = <<>> /\ codemod_exclude = <<>>
    THEN DEFAULT_CODEMODS
    ELSE IF codemod_exclude = <<>>
    THEN { c \in DEFAULT_CODEMODS : METADATA_NAME(c) \in Range(codemod_include) }
    ELSE { c \in DEFAULT_CODEMODS : METADATA_NAME(c) \notin Range(codemod_exclude) }

AtMostOneGiven == codemod_include = <<>> \/ codemod_exclude = <<>>

\* C7: with at most one of the lists non-empty, match_codemods returns the
\* mapping from name to codemod of every default codemod (both empty), of
\* the default codemods named in the include list (only include given), of
\* the default codemods not named in the exclude list (only exclude given)
C7_Selection ==
    (matched # None /\ AtMostOneGiven) =>
        /\ ~matched[1].raised
        /\ DOMAIN matched[1].value[1] = { METADATA_NAME(c) : c \in Selected }
        /\ \A c \in Selected : matched[1].value[1][METADATA_NAME(c)] = c

\* an include list with a registered and an unregistered name selected the
\* one registered codemod
C7_Witness ==
    /\ matched # None
    /\ codemod_include = <<"url-sandbox", "no-such-codemod">>
    /\ codemod_exclude = <<>>
    /\ DOMAIN matched[1].value[1] = {"url-sandbox"}

\* a list without the names that match no registered codemod
Strip(list) == SelectSeq(list, LAMBDA n : n \in KnownNames)

\* C8 as stated: match_codemods raises nothing and returns what it returns
\* for the lists with every unregistered name removed
C8_UnknownNamesRemoved ==
    (matched # None /\ AtMostOneGiven) =>
        /\ ~matched[1].raised
        /\ matched[1] = match_codemods(Strip(codemod_include), Strip(codemod_exclude))

\* C8 amended: match_codemods raises nothing and returns what it returns for
\* the lists with every unregistered name removed, except that a non-empty
\* include list of unregistered names only selects no codemod
C8_UnknownNamesIgnored ==
    (matched # None /\ AtMostOneGiven) =>
        /\ ~matched[1].raised
        /\ matched[1] =
             IF codemod_include # <<>> /\ Strip(codemod_include) = <<>>
             THEN Returned(Dict({}))
             ELSE match_codemods(Strip(codemod_include), Strip(codemod_exclude))

\* an exclude list with a registered and an unregistered name left the two
\* other codemods
C8_Witness ==
    /\ matched # None
    /\ codemod_include = <<>>
    /\ codemod_exclude = <<"no-such-codemod", "secure-random">>
    /\ DOMAIN matched[1].value[1] = {"url-sandbox", "sandbox-process-creation"}

(* ----------------------- one _process_file call ----------------------- *)
\* the arguments of a call of _process_file for TheFile: the codemod has a
\* detector exactly when a ResultIndex is passed
InitFile ==
    /\ \E res \in { None } \cup { Some(r) : r \in FindingLists },
          rules \in RuleLists, exclude \in PatternSets, include \in PatternSets :
           pf_args = [ self |-> __init__(Metadata("secure-random"), res # None, None),
                       filename |-> TheFile,
                       context |-> [ directory |-> "/repo", max_workers |-> 1,
                                     path_include |-> include,
                                     path_exclude |-> exclude ],
                       results |-> res,
                       rules |-> rules ]
    /\ pf_call = None
    /\ pf_return = None
    /\ IdlePipeline /\ IdleMatch
    /\ IdleCsv /\ IdleSandbox /\ IdleDescribe /\ IdleCst

\* the call self._process_file(filename, context, results, rules), with the
\* transformer call it makes
ProcessFile ==
    /\ pf_return = None
    /\ LET a == pf_args
           fc == file_context(a.filename, a.context, a.results, a.rules)
           findings == findings_for_rule(a.results, a.rules, a.filename)
       IN  \E t \in BaseTransformerPipeline_apply(fc, findings) :
             /\ pf_call' = Some([ context |-> a.context, file_context |-> fc,
                                  results |-> findings ])
             /\ pf_return' = Some([ transformer |-> t,
                                    outcome |-> _process_file(a.self, a.filename,
                                                   a.context, a.results, a.rules, t) ])
    /\ UNCHANGED << pf_args, pipeline_vars, match_vars, csv_vars, sandbox_vars,
                    describe_vars, cst_vars >>

NextFile == ProcessFile

SpecFile == InitFile /\ [][NextFile]_vars

\* the findings of the result set that are for the file of the call and for
\* a rule of the call
FindingsForCall ==
    IF pf_args.results = None THEN <<>>
    ELSE SelectSeq(pf_args.results[1],
                   LAMBDA r : r.path = pf_args.filename /\ In(r.rule, pf_args.rules))

\* C11: the FileContext returned by _process_file holds no ChangeSet when the
\* transformer returned none and exactly the returned ChangeSet when it
\* returned one; with a ResultIndex that has no finding for the file, the
\* transformer receives an empty findings list and the returned FileContext
\* for the file holds no ChangeSet.
C11_ChangeSetsOfOutcome ==
    pf_return # None =>
        LET t == pf_return[1].transformer
            o == pf_return[1].outcome
        IN  /\ ~t.raised =>
                /\ ~o.raised
                /\ o.value[1].file_path = pf_args.filename
                /\ o.value[1].results =
                       IF t.ret = None THEN <<>> ELSE << t.ret[1] >>
            /\ (pf_args.results # None /\ FindingsForCall = <<>>) =>
                /\ pf_call[1].results = Some(<<>>)
                /\ pf_call[1].file_context.findings = Some(<<>>)
                /\ ~t.raised =>
                     /\ o.value[1].file_path = pf_args.filename
                     /\ o.value[1].results = <<>>

\* a ResultIndex whose findings are all for another file, and the FileContext
\* of the file comes back without a ChangeSet
C11_Witness ==
    /\ pf_return # None
    /\ pf_args.results # None
    /\ pf_args.results[1] # <<>>
    /\ pf_args.rules # <<>>
    /\ FindingsForCall = <<>>
    /\ ~pf_return[1].outcome.raised
    /\ pf_return[1].outcome.value[1].results = <<>>

\* the lines of the file that the configuration excludes / includes
ExcludedLines ==
    { l \in Lines : \E p \in pf_args.context.path_exclude :
                       p.path = pf_args.filename /\ p.line = l }

IncludedLines ==
    { l \in Lines : \E p \in pf_args.context.path_include :
                       p.path = pf_args.filename /\ p.line = l }

\* C12: the exclude and include lines are computed for the file from
\* context.path_exclude and context.path_include and are in the FileContext
\* the transformer is called with; no ChangeSet of the outcome changes an
\* excluded line, or, when include lines exist, a line that is not included.
C12_LineFilter ==
    pf_return # None =>
        /\ pf_call[1].file_context.line_exclude = ExcludedLines
        /\ pf_call[1].file_context.line_include = IncludedLines
        /\ ~pf_return[1].outcome.raised =>
             LET out == pf_return[1].outcome.value[1]
             IN  \A i \in 1..Len(out.results) : \A l \in out.results[i].changes :
                   /\ l \notin ExcludedLines
                   /\ IncludedLines # {} => l \in IncludedLines

\* findings on two lines, one of them excluded, and a ChangeSet for the other
C12_Witness ==
    /\ pf_return # None
    /\ ExcludedLines # {}
    /\ \E i \in 1..Len(FindingsForCall) : FindingsForCall[i].line \in ExcludedLines
    /\ ~pf_return[1].outcome.raised
    /\ pf_return[1].outcome.value[1].results # <<>>

RECURSIVE FindingsOfFirstRules(_)
\* the findings of the first k rules of the call for the file of the call,
\* rule after rule, each rule's findings in the order of the result set
FindingsOfFirstRules(k) ==
    IF k = 0 THEN <<>>
    ELSE FindingsOfFirstRules(k - 1)
         \o SelectSeq(pf_args.results[1],
                      LAMBDA r : r.rule = pf_args.rules[k] /\ r.path = pf_args.filename)

\* C15: the findings given to the FileContext and to the transformer are the
\* concatenation, in rule-list order, of each rule's findings for the file,
\* in the order of the result set (the empty list when nothing matches);
\* without a ResultIndex they are none, not the empty list.
C15_FindingsInRuleOrder ==
    pf_call # None =>
        /\ pf_call[1].results = pf_call[1].file_context.findings
        /\ pf_args.results = None =>
             /\ pf_call[1].results = None
             /\ pf_call[1].results # Some(<<>>)
        /\ pf_args.results # None =>
             /\ pf_call[1].results # None
             /\ pf_call[1].results[1] = FindingsOfFirstRules(Len(pf_args.rules))

\* two rules with a finding each for the file, the result set listing the
\* second rule's finding first
C15_Witness ==
    /\ pf_call # None
    /\ pf_args.results # None
    /\ Len(pf_args.rules) = 2
    /\ pf_args.rules[1] # pf_args.rules[2]
    /\ Len(pf_args.results[1]) = 2
    /\ pf_args.results[1][1].rule = pf_args.rules[2]
    /\ pf_args.results[1][2].rule = pf_args.rules[1]
    /\ Len(pf_call[1].results[1]) = 2
    /\ pf_call[1].results[1][1] = pf_args.results[1][2]

(* --------------------------- process_csv_list -------------------------- *)
\* the option is not given (None) or has a str value
InitCsv ==
    /\ csv_value \in { None } \cup { Some(v) : v \in Strings }
    /\ csv_list = None
    /\ IdlePipeline /\ IdleMatch
    /\ IdleFile /\ IdleSandbox /\ IdleDescribe /\ IdleCst

\* the click callback process_csv_list(ctx, param, value)
ProcessCsvList ==
    /\ csv_list = None
    /\ csv_list' = Some(process_csv_list(csv_value))
    /\ UNCHANGED << csv_value, pipeline_vars, match_vars, file_vars,
                    sandbox_vars, describe_vars, cst_vars >>

NextCsv == ProcessCsvList

SpecCsv == InitCsv /\ [][NextCsv]_vars

\* the positions of the commas of the option value
Commas == { i \in 1..Len(csv_value[1]) : csv_value[1][i] = "," }

\* the position of the k-th comma; 0 and Len + 1 bound the value
Comma(k) ==
    IF k = 0 THEN 0
    ELSE IF k > Cardinality(Commas) THEN Len(csv_value[1]) + 1
    ELSE CHOOSE i \in Commas : Cardinality({ j \in Commas : j < i }) = k - 1

\* the k-th item of the value: the text between two neighbouring commas
Item(k) == SubSeq(csv_value[1], Comma(k - 1) + 1, Comma(k) - 1)

ItemIndices == 1..(Cardinality(Commas) + 1)

FirstOccurrence(item) == Min({ k \in ItemIndices : Item(k) = item })

\* C14: process_csv_list returns the comma-separated items of the value,
\* each once, in the order of their first occurrence; for None it returns the
\* empty list.
C14_ItemsInFirstOccurrenceOrder ==
    csv_list # None =>
        IF csv_value = None THEN csv_list[1] = <<>>
        ELSE LET items == csv_list[1]
             IN  /\ \A k \in ItemIndices : In(Item(k), items)
                 /\ \A i \in 1..Len(items) : \E k \in ItemIndices : Item(k) = items[i]
                 /\ \A i, j \in 1..Len(items) :
                      i < j => /\ items[i] # items[j]
                               /\ FirstOccurrence(items[i]) < FirstOccurrence(items[j])

\* "a,b,a" gives ["a", "b"]
C14_Witness ==
    /\ csv_value = Some(<< "a", ",", "b", ",", "a" >>)
    /\ csv_list = Some(<< <<"a">>, <<"b">> >>)

(* ---------------------------- ProcessSandbox --------------------------- *)
\* a module that imports subprocess
InitSandbox ==
    /\ sb_module \in { Some(m) : m \in Modules }
    /\ sb_output = None
    /\ IdlePipeline /\ IdleMatch
    /\ IdleFile /\ IdleCsv /\ IdleDescribe /\ IdleCst

\* the codemod is applied to the module
Sandbox ==
    /\ sb_output = None
    /\ sb_output' = Some(ProcessSandbox(sb_module[1]))
    /\ UNCHANGED << sb_module, pipeline_vars, match_vars, file_vars, csv_vars,
                    describe_vars, cst_vars >>

NextSandbox == Sandbox

SpecSandbox == InitSandbox /\ [][NextSandbox]_vars

\* the lines of a module other than `from security import safe_command`
WithoutAddedImport(module) ==
    SelectSeq(module, LAMBDA stmt : stmt # FromImport("security", "safe_command"))

\* the subprocess.run and subprocess.call sites of the input module
RunAndCallSites ==
    { i \in 1..Len(sb_module[1]) :
        /\ sb_module[1][i].kind = "call"
        /\ sb_module[1][i].obj = "subprocess"
        /\ sb_module[1][i].func \in {"run", "call"} }

\* C13: ProcessSandbox rewrites every subprocess.run and subprocess.call call
\* site to its safe_command equivalent, leaves every other line, among them
\* subprocess.check_output, as it is, adds `from security import
\* safe_command` exactly once, and reports as many changes as call sites it
\* rewrote: 4 in the sample module.
C13_SandboxRewrites ==
    sb_output # None =>
        LET in == sb_module[1]
            out == sb_output[1].module
            kept == WithoutAddedImport(out)
        IN  /\ Len(kept) = Len(in)
            /\ \A i \in 1..Len(in) :
                 IF i \in RunAndCallSites
                 THEN kept[i] = [in[i] EXCEPT !.obj = "safe_command"]
                 ELSE kept[i] = in[i]
            /\ RunAndCallSites # {} => Len(out) = Len(in) + 1
            /\ Len(sb_output[1].changes) = Cardinality(RunAndCallSites)
            /\ in = original_code =>
                 /\ out = expected_new_code
                 /\ Len(sb_output[1].changes) = num_changes
                 /\ sb_output[1].changes[1] = expected_line_change

\* the sample module has been rewritten
C13_Witness ==
    /\ sb_module = Some(original_code)
    /\ sb_output # None
    /\ sb_output[1].module = expected_new_code

(* ----------------------- description and describe --------------------- *)
\* a fresh codemod instance, with or without an inline description, and its
\* documentation resource
InitDescribe ==
    /\ \E inline \in { None, Some("inline") },
          refs \in { <<>>, << Reference("https://example.com", "ref") >> } :
         d_codemod = Some(Instance(DescribedMetadata("secure-random", "summary",
                                                     inline, refs)))
    /\ d_docs \in { Some(r) : r \in DocsResources }
    /\ d_reads = 0
    /\ d_log = <<>>
    /\ IdlePipeline /\ IdleMatch
    /\ IdleFile /\ IdleCsv /\ IdleSandbox /\ IdleCst

\* one access `codemod.description`
AccessDescription ==
    /\ Len(d_log) < MaxAccesses
    /\ LET d == description(d_codemod[1], d_docs[1])
       IN  /\ d_codemod' = Some(d.self)
           /\ d_reads' = d_reads + (IF d.read THEN 1 ELSE 0)
           /\ d_log' = Append(d_log, [ via |-> "description", raised |-> d.raised,
                                       description |-> d.value, value |-> None,
                                       docs |-> d_docs[1] ])
    /\ UNCHANGED << d_docs, pipeline_vars, match_vars, file_vars, csv_vars,
                    sandbox_vars, cst_vars >>

\* one call `codemod.describe()`
Describe ==
    /\ Len(d_log) < MaxAccesses
    /\ LET d == describe(d_codemod[1], d_docs[1])
       IN  /\ d_codemod' = Some(d.self)
           /\ d_reads' = d_reads + (IF d.read THEN 1 ELSE 0)
           /\ d_log' = Append(d_log, [ via |-> "describe", raised |-> d.raised,
                                       description |->
                                           IF d.raised THEN ""
                                           ELSE d.value[1].description,
                                       value |-> d.value,
                                       docs |-> d_docs[1] ])
    /\ UNCHANGED << d_docs, pipeline_vars, match_vars, file_vars, csv_vars,
                    sandbox_vars, cst_vars >>

\* the environment: the resource file is written, replaced or removed
EditDocs ==
    /\ \E r \in DocsResources \ { d_docs[1] } : d_docs' = Some(r)
    /\ UNCHANGED << d_codemod, d_reads, d_log, pipeline_vars, match_vars,
                    file_vars, csv_vars, sandbox_vars, cst_vars >>

NextDescribe == AccessDescription \/ Describe \/ EditDocs

SpecDescribe == InitDescribe /\ [][NextDescribe]_vars

\* the accesses that returned
Returns == { i \in 1..Len(d_log) : ~d_log[i].raised }

\* no step changes the codemod's metadata or origin
DescribeKeepsCodemod ==
    d_codemod # None =>
        /\ d_codemod'[1]._metadata = d_codemod[1]._metadata
        /\ d_codemod'[1].origin = d_codemod[1].origin

\* C18: the description is the inline metadata description when there is
\* one; otherwise it is the text the documentation resource had at the first
\* access that returned, and every later access, directly or through
\* describe, returns that same text; the resource is read at most once per
\* instance; describe returns id, summary, description and references and
\* changes nothing else of the codemod.
C18_DescriptionMemoized ==
    /\ [][DescribeKeepsCodemod]_vars
    /\ [](d_codemod # None =>
            LET md == d_codemod[1]._metadata
            IN  /\ d_reads <= 1
                /\ md.description # None =>
                     /\ d_reads = 0
                     /\ \A i \in 1..Len(d_log) :
                          ~d_log[i].raised /\ d_log[i].description = md.description[1]
                /\ md.description = None =>
                     /\ \A i \in Returns :
                          d_log[i].description = d_log[Min(Returns)].docs.text
                     /\ \A i \in 1..Len(d_log) :
                          d_log[i].raised => \A j \in 1..i : d_log[j].raised
                     /\ d_reads = IF Returns = {} THEN 0 ELSE 1
                /\ \A i \in Returns :
                     d_log[i].via = "describe" =>
                        d_log[i].value[1] =
                            [ codemod |-> "pixee:python/secure-random",
                              summary |-> md.summary,
                              description |-> d_log[i].description,
                              references |->
                                  [ k \in 1..Len(md.references) |->
                                      [ url |-> md.references[k].url,
                                        description |-> md.references[k].description ] ] ])

\* no inline description: the text was read once, the resource was edited
\* afterwards, and a later describe still returned the first text
C18_Witness ==
    /\ d_codemod # None
    /\ d_codemod[1]._metadata.description = None
    /\ d_codemod[1]._metadata.references # <<>>
    /\ d_reads = 1
    /\ Len(d_log) >= 2
    /\ d_log[1].via = "description" /\ ~d_log[1].raised
    /\ d_log[Len(d_log)].via = "describe"
    /\ d_log[Len(d_log)].docs.exists
    /\ d_log[Len(d_log)].docs.text # d_log[1].docs.text
    /\ d_log[Len(d_log)].description = d_log[1].description

(* -------------------- RemoveEmptyStringConcatenation ------------------ *)
\* an expression of a module, with at most MaxNodes operations
InitCst ==
    /\ \/ \E t \in Leaves : cst_tree = Some(t)
       \/ \E n \in 1..MaxNodes, k \in 0..(MaxNodes - 1), op \in Operators :
            /\ k <= n - 1
            /\ \E l \in TreesOfSize(k), r \in TreesOfSize(n - 1 - k) :
                 cst_tree = Some(BinaryOperation(l, op, r))
       \/ \E n \in 1..MaxNodes :
            \E l \in StringLeaves, r \in ConcatenatedOperands(n - 1) :
                 cst_tree = Some(ConcatenatedString(l, r))
    /\ cst_output = None
    /\ IdlePipeline /\ IdleMatch
    /\ IdleFile /\ IdleCsv /\ IdleSandbox /\ IdleDescribe

\* tree.visit(RemoveEmptyStringConcatenation()): the updated_node the
\* outermost leave_ call got, if the tree is an operation, and the result
Visit ==
    /\ cst_output = None
    /\ cst_output' =
         Some([ updated_node |->
                    IF cst_tree[1].kind \in {"BinaryOperation", "ConcatenatedString"}
                    THEN Some(updated(cst_tree[1]))
                    ELSE None,
                result |-> visit(cst_tree[1]),
                second |-> None ])
    /\ UNCHANGED << cst_tree, pipeline_vars, match_vars, file_vars, csv_vars,
                    sandbox_vars, describe_vars >>

\* a second run of the codemod: the transformer visits its own output
VisitAgain ==
    /\ cst_output # None
    /\ cst_output[1].second = None
    /\ cst_output' = Some([ cst_output[1] EXCEPT
                              !.second = Some(visit(cst_output[1].result)) ])
    /\ UNCHANGED << cst_tree, pipeline_vars, match_vars, file_vars, csv_vars,
                    sandbox_vars, describe_vars >>

NextCst == Visit \/ VisitAgain

SpecCst == InitCst /\ [][NextCst]_vars

\* an empty string literal: "" or '' (an f-string is a FormattedString
\* expression, not a string literal node)
EmptyLiteral(node) == node.kind = "SimpleString" /\ node.text = ""

\* binary + and implicit concatenation of adjacent strings
IsConcatenation(node) ==
    \/ node.kind = "ConcatenatedString"
    \/ node.kind = "BinaryOperation" /\ node.operator = "Add"

\* C19: a concatenation (binary + or adjacent strings) with an empty string
\* literal as one operand is replaced by its other operand, a concatenation
\* of two empty string literals by one empty string literal; an operation
\* with no empty string literal operand is returned unchanged.
C19_EmptyOperandRemoved ==
    (cst_output # None /\ cst_output[1].updated_node # None) =>
        LET node == cst_output[1].updated_node[1]
            result == cst_output[1].result
        IN  /\ (IsConcatenation(node) /\ EmptyLiteral(node.left)
                  /\ ~EmptyLiteral(node.right)) => result = node.right
            /\ (IsConcatenation(node) /\ EmptyLiteral(node.right)
                  /\ ~EmptyLiteral(node.left)) => result = node.left
            /\ (IsConcatenation(node) /\ EmptyLiteral(node.left)
                  /\ EmptyLiteral(node.right)) =>
                   /\ EmptyLiteral(result)
                   /\ result.quote = "\"" /\ result.prefix = ""
            /\ (~EmptyLiteral(node.left) /\ ~EmptyLiteral(node.right)) =>
                   result = node

\* "a" + '' has become "a"
C19_Witness ==
    /\ cst_tree = Some(BinaryOperation(SimpleString("", "\"", "a"), "Add",
                                       SimpleString("", "'", "")))
    /\ cst_output # None
    /\ cst_output[1].result = SimpleString("", "\"", "a")

RECURSIVE OfLiteralsAndConcatenations(_)
\* an expression built from string literals and concatenations only
OfLiteralsAndConcatenations(node) ==
    IF node.kind = "SimpleString" THEN TRUE
    ELSE IF node.kind \in {"BinaryOperation", "ConcatenatedString"}
    THEN /\ IsConcatenation(node)
         /\ OfLiteralsAndConcatenations(node.left)
         /\ OfLiteralsAndConcatenations(node.right)
    ELSE FALSE

RECURSIVE HasEmptyOperand(_)
\* some concatenation of the expression has an empty string literal operand
HasEmptyOperand(node) ==
    IF node.kind \in {"BinaryOperation", "ConcatenatedString"}
    THEN \/ IsConcatenation(node)
            /\ (EmptyLiteral(node.left) \/ EmptyLiteral(node.right))
         \/ HasEmptyOperand(node.left)
         \/ HasEmptyOperand(node.right)
    ELSE FALSE

\* C20: one pass reaches a fixed point: for an expression built from string
\* literals and concatenations, no concatenation of the output has an empty
\* string literal operand, and a second pass over the output returns the
\* output unchanged.
C20_FixedPointInOnePass ==
    (cst_output # None /\ OfLiteralsAndConcatenations(cst_tree[1])) =>
        /\ ~HasEmptyOperand(cst_output[1].result)
        /\ OfLiteralsAndConcatenations(cst_output[1].result)
        /\ cst_output[1].second # None =>
             cst_output[1].second[1] = cst_output[1].result

\* ("a" + "") + "a" has become "a" + "a", and the second pass has run
C20_Witness ==
    /\ cst_tree = Some(BinaryOperation(
                         BinaryOperation(SimpleString("", "\"", "a"), "Add",
                                         SimpleString("", "\"", "")),
                         "Add", SimpleString("", "\"", "a")))
    /\ cst_output # None
    /\ cst_output[1].result = BinaryOperation(SimpleString("", "\"", "a"), "Add",
                                              SimpleString("", "\"", "a"))
    /\ cst_output[1].second = Some(cst_output[1].result)

\* C21: only concatenations are rewritten: a binary operation whose
\* operator is not + comes back unchanged, even when an operand is an empty
\* string literal.
C21_OtherOperatorsUnchanged ==
    (cst_output # None /\ cst_output[1].updated_node # None) =>
        LET node == cst_output[1].updated_node[1]
        IN  (node.kind = "BinaryOperation" /\ node.operator # "Add") =>
                cst_output[1].result = node

\* the default codemods the exclude list does not name
NotExcluded ==
    { c \in DEFAULT_CODEMODS :
        \A i \in 1..Len(codemod_exclude) : codemod_exclude[i] # METADATA_NAME(c) }

\* C22: the assertion of match_codemods fails for no input; when both lists
\* are non-empty, match_codemods returns exactly the default codemods whose
\* name is not in the exclude list, whatever the include list holds.
C22_ExcludeWinsWhenBothGiven ==
    matched # None =>
        /\ ~matched[1].raised
        /\ (codemod_include # <<>> /\ codemod_exclude # <<>>) =>
             /\ DOMAIN matched[1].value[1] = { METADATA_NAME(c) : c \in NotExcluded }
             /\ \A c \in NotExcluded : matched[1].value[1][METADATA_NAME(c)] = c

\* include names secure-random, exclude names url-sandbox, and the two
\* codemods that are not excluded came back
C22_Witness ==
    /\ matched # None
    /\ codemod_include = <<"secure-random">>
    /\ codemod_exclude = <<"url-sandbox">>
    /\ ~matched[1].raised
    /\ DOMAIN matched[1].value[1] = {"secure-random", "sandbox-process-creation"}

====
